---- MODULE Spec2Model ----
(***************************************************************************)
(* Segment statistics of deepdecoder/mask_loss.py: the reference           *)
(* implementation theano_split_mask, the post-processor split_to_mean_var, *)
(* the accelerated forward operator SplitMask and its gradient operator    *)
(* SplitMaskGrad.                                                          *)
(*                                                                         *)
(* Tensors are records [shape |-> <<d1, ..., dk>>, data |-> <<...>>] with  *)
(* the data in row-major (C-contiguous) order, as contiguouse() makes them.*)
(* Pixel values are integers; the post-processor divides exactly (as       *)
(* fractions), so float32 rounding is outside the model.                   *)
(***************************************************************************)
EXTENDS Integers, Sequences, FiniteSets, TLC

\* ------------------------------------------------------------- the state
VARIABLES
    mask_idx,   \* the label map of the last call
    image,      \* the image of the last call
    split,      \* what the last split function call returned
    stats,      \* what split_to_mean_var returned for it
    gpu,        \* device memory: buffer id -> tensor, or Free
    sdata,      \* SplitMask._sdata: the id of the scratch buffer, 0 for None
    outputs,    \* the output cells of the forward node: views of a buffer
    launch,     \* the kernel launch of the last call, None if it launched none
    result,     \* how the last call ended: "ok" or the exception raised
    engine,     \* the SplitMaskGrad instance: connected and function_name
    node,       \* the names of the inputs of its Apply node, in order
    og,         \* the values of the upstream gradients in the last backward call
    grad,       \* the output cell of the gradient node: a buffer id, 0 for None
    zero_grad,  \* the label map gradient the last backward evaluation returned
    call,       \* the last operation on the gradient engine and its arguments
    held        \* outputs of an earlier forward call the caller still holds

vars == <<mask_idx, image, split, stats, gpu, sdata, outputs, launch, result,
          engine, node, og, grad, zero_grad, call, held>>

gradvars == <<engine, node, og, grad, zero_grad, call>>

refvars == <<mask_idx, image, split, stats>>

fwdvars == <<gpu, sdata, outputs, launch, result>>

\* ------------------------------------------------------------------ bounds
MaxBatch == 2
MaxSide == 4
MaxVal == 1

\* --------------------------------------------------- the MASK enumeration
\* An ordered excerpt of beesgrid's MASK (name -> code), in declaration order:
\* BACKGROUND_RING, IGNORE, OUTER_WHITE_RING.
MASK == <<13, 128, 141>>

NumClasses == Len(MASK)

\* --------------------------------------------------------- tensor helpers
RECURSIVE Prod(_)
Prod(s) == IF s = <<>> THEN 1 ELSE Head(s) * Prod(Tail(s))

numel(shape) == Prod(shape)

RECURSIVE SumRange(_, _, _)
SumRange(d, lo, hi) == IF hi < lo THEN 0 ELSE d[hi] + SumRange(d, lo, hi - 1)

zeros(shape) == [shape |-> shape, data |-> [k \in 1..numel(shape) |-> 0]]

zeros_like(t) == zeros(t.shape)

\* 0-based coordinates <<b, c, y, x>> of the 0-based flat offset k0 in a 4-D shape.
Unravel(shape, k0) ==
    << k0 \div (shape[2] * shape[3] * shape[4]),
       (k0 \div (shape[3] * shape[4])) % shape[2],
       (k0 \div shape[4]) % shape[3],
       k0 % shape[4] >>

Ravel(shape, ix) ==
    ((ix[1] * shape[2] + ix[2]) * shape[3] + ix[3]) * shape[4] + ix[4]

InBounds(shape, ix) == \A a \in 1..4 : ix[a] < shape[a]

\* T.eq(mask_idx, enum_val): the elementwise indicator, shaped like mask_idx.
eq(t, v) == [shape |-> t.shape,
             data |-> [k \in 1..Len(t.data) |-> IF t.data[k] = v THEN 1 ELSE 0]]

\* idx.nonzero(): the coordinates of the non-zero elements.
nonzero(idx) ==
    { Unravel(idx.shape, k - 1) : k \in { j \in 1..Len(idx.data) : idx.data[j] # 0 } }

\* idx.sum(axis=(1, 2, 3)) of a 4-D tensor: one number per batch row.
sum_axis123(t) ==
    LET row == t.shape[2] * t.shape[3] * t.shape[4]
    IN  [b \in 1..t.shape[1] |-> SumRange(t.data, (b - 1) * row + 1, b * row)]

\* x.sum(axis=[2, 3, 4]) of a 5-D tensor: a (shape[1] x shape[2]) matrix.
sum_axis234(t) ==
    LET row == t.shape[3] * t.shape[4] * t.shape[5]
    IN  [c \in 1..t.shape[1] |->
            [b \in 1..t.shape[2] |->
                SumRange(t.data, ((c - 1) * t.shape[2] + (b - 1)) * row + 1,
                                 ((c - 1) * t.shape[2] + b) * row)]]

\* ------------------------------------------------------- shape_ok (l. 50)
shape_ok(shp) == shp[3] = shp[4] /\ shp[3] % 2 = 0 /\ shp[2] = 1

\* ------------------------------------------------------ exact fractions
\* A number of the post-processor: <<n, d>> with d > 0 in lowest terms, or
\* d = 0 for what a float division by zero yields (n = 0: NaN, else +-Inf).
RECURSIVE Gcd(_, _)
Gcd(a, b) == IF b = 0 THEN a ELSE Gcd(b, a % b)

Abs(a) == IF a < 0 THEN -a ELSE a

Frac(n, d) ==
    LET g == Gcd(Abs(n), d)
    IN  IF n = 0 THEN <<0, 1>> ELSE <<n \div g, d \div g>>

FZero == <<0, 1>>

Finite(f) == f[2] # 0

Sign(a) == IF a < 0 THEN -1 ELSE IF a > 0 THEN 1 ELSE 0

\* x / count on floats holding integers
FDiv(x, count) ==
    IF count = 0 THEN <<Sign(x), 0>>
    ELSE IF count < 0 THEN Frac(-x, -count) ELSE Frac(x, count)

FSub(f, g) ==
    IF Finite(f) /\ Finite(g) THEN Frac(f[1] * g[2] - g[1] * f[2], f[2] * g[2])
    ELSE <<0, 0>>

FSquare(f) == IF Finite(f) THEN Frac(f[1] * f[1], f[2] * f[2]) ELSE <<1, 0>>

\* ----------------------------------- theano_split_mask (l. 216-229)
\* T.ge in place of T.eq: a pixel then counts for every class of a code up to
\* its own, a slip C2 excludes.
split_idx_ge(mask, i) ==
    [shape |-> mask.shape,
     data |-> [k \in 1..Len(mask.data) |-> IF mask.data[k] >= MASK[i] THEN 1 ELSE 0]]

\* l. 221: idx = T.eq(mask_idx, enum_val) for the i-th entry of MASK.items()
split_idx(mask, i) == eq(mask, MASK[i])

\* l. 222: the value set into count[i]: idx.sum(axis=(1, 2, 3)), one entry per
\* row of mask_idx, stored into a row of length shp[0] (the image's batch size):
\* equal lengths copy, a length of 1 broadcasts, anything else is an error.
split_count(mask, img, i) ==
    LET v == sum_axis123(split_idx(mask, i))
        n == img.shape[1]
    IN  IF Len(v) = n THEN [status |-> "ok", row |-> v]
        ELSE IF Len(v) = 1 THEN [status |-> "ok", row |-> [b \in 1..n |-> v[1]]]
        ELSE [status |-> "ValueError", row |-> <<>>]

\* l. 223-225: tmp_image = zeros_like(image) with image's values at idx.nonzero();
\* a coordinate of idx.nonzero() outside image is an IndexError.
split_image(mask, img, i) ==
    LET nz == nonzero(split_idx(mask, i))
    IN  IF \E ix \in nz : ~InBounds(img.shape, ix)
        THEN [status |-> "IndexError", data |-> <<>>]
        ELSE LET at == { Ravel(img.shape, ix) + 1 : ix \in nz }
             IN  [status |-> "ok",
                  data |-> [k \in 1..Len(img.data) |->
                               IF k \in at THEN img.data[k] ELSE 0]]

\* splitted*2 in place of splitted**2: a slip C1 excludes.
square_as_double(t) ==
    [shape |-> t.shape, data |-> [k \in 1..Len(t.data) |-> t.data[k] * 2]]

\* splitted**2
square(t) == [shape |-> t.shape,
              data |-> [k \in 1..Len(t.data) |-> t.data[k] * t.data[k]]]

theano_split_mask(mask, img) ==
    LET shp == img.shape
        m == NumClasses
        ne == numel(shp)
        counts == [i \in 1..m |-> split_count(mask, img, i)]
        splitted_list == [i \in 1..m |-> split_image(mask, img, i)]
    IN  IF \E i \in 1..m : splitted_list[i].status # "ok"
        THEN [status |-> "IndexError"]
        ELSE IF \E i \in 1..m : counts[i].status # "ok"
        THEN [status |-> "ValueError"]
        ELSE LET splitted ==
                     [shape |-> <<m>> \o shp,
                      data |-> [k \in 1..(m * ne) |->
                                   splitted_list[(k - 1) \div ne + 1].data[((k - 1) % ne) + 1]]]
                 count ==
                     [shape |-> <<m, shp[1], 1, 1, 1>>,
                      data |-> [k \in 1..(m * shp[1]) |->
                                   counts[(k - 1) \div shp[1] + 1].row[((k - 1) % shp[1]) + 1]]]
             IN  [status |-> "ok", sum |-> splitted, pow |-> square(splitted),
                  count |-> count]

\* x.sum(axis) / count without the switch: a slip C5 excludes.
mean_by_count_unguarded(x, count) ==
    LET xs == sum_axis234(x)
    IN  [c \in DOMAIN count |->
            [b \in DOMAIN count[c] |-> FDiv(xs[c][b], count[c][b])]]

\* ------------------------------------------ mean_by_count (l. 232-235)
\* T.switch(T.eq(count, 0), T.zeros_like(count), x.sum(axis) / count) with
\* axis = [2, 3, 4]: both branches are computed for every slot, the condition
\* selects one of them.
mean_by_count(x, count) ==
    LET xs == sum_axis234(x)
        quotient == [c \in DOMAIN count |->
                        [b \in DOMAIN count[c] |-> FDiv(xs[c][b], count[c][b])]]
    IN  [c \in DOMAIN count |->
            [b \in DOMAIN count[c] |->
                IF count[c][b] = 0 THEN FZero ELSE quotient[c][b]]]

\* ---------------------------------------- split_to_mean_var (l. 238-243)
split_to_mean_var(sum, pow, count) ==
    LET count_sum == sum_axis234(count)
        mean == mean_by_count(sum, count_sum)
        mpow == mean_by_count(pow, count_sum)
        var == [c \in DOMAIN mean |->
                   [b \in DOMAIN mean[c] |-> FSub(mpow[c][b], FSquare(mean[c][b]))]]
    IN  [status |-> "ok", mean |-> mean, var |-> var, count |-> count_sum]

\* --------------------------------- the forward algorithm (spec 4.1, 4.2)
\* Label classifier: the class index of a label value.
classifier(label) == CHOOSE i \in 1..NumClasses : MASK[i] = label

\* The scan of image b (1-based) for class c over its first p pixels:
\* <<sum, sumOfSquares, count>>.
RECURSIVE scan(_, _, _, _, _)
scan(labelMap, img, b, c, p) ==
    IF p = 0 THEN <<0, 0, 0>>
    ELSE LET acc == scan(labelMap, img, b, c, p - 1)
             row == labelMap.shape[3] * labelMap.shape[4]
             k == (b - 1) * row + p
             v == img.data[k]
         IN  IF classifier(labelMap.data[k]) = c
             THEN <<acc[1] + v, acc[2] + v * v, acc[3] + 1>>
             ELSE acc

reduceSegments(labelMap, img, b, c) ==
    scan(labelMap, img, b, c, labelMap.shape[3] * labelMap.shape[4])

\* ------------------------------------------------------------ the inputs
\* Tensor contents are drawn from affine patterns over the pixel offset p and
\* the batch row b (both 0-based).
LabelPatterns == (0..(NumClasses - 1)) \X (0..(NumClasses - 1)) \X (0..(NumClasses - 1))

Vals == (-1)..MaxVal

ValuePatterns == (0..(MaxVal + 1)) \X (0..(MaxVal + 1)) \X (0..(MaxVal + 1))

GenLabels(shape, lp) ==
    LET row == shape[2] * shape[3] * shape[4]
    IN  [shape |-> shape,
         data |-> [k \in 1..numel(shape) |->
             MASK[((lp[1] * ((k - 1) % row) + lp[2] * ((k - 1) \div row) + lp[3])
                   % NumClasses) + 1]]]

GenValues(shape, vp) ==
    LET row == Prod(Tail(shape))
    IN  [shape |-> shape,
         data |-> [k \in 1..numel(shape) |->
             ((vp[1] * ((k - 1) % row) + vp[2] * ((k - 1) \div row) + vp[3])
              % (MaxVal + 2)) - 1]]

Sides == 1..MaxSide

EvenSides == { s \in Sides : s % 2 = 0 }

ValidShapes == { <<n, 1, s, s>> : n \in 1..MaxBatch, s \in EvenSides }

None == [status |-> "none"]

\* ------------------------------------------------------ device memory
BufIds == {1, 2, 3}

Free == [shape |-> <<>>, data |-> <<>>]

\* The lowest free buffer id.
fresh(heap) == CHOOSE id \in BufIds :
    heap[id] = Free /\ \A j \in BufIds : heap[j] = Free => id <= j

\* Buffers no reference in refs reaches are released.
collect(heap, refs) == [id \in BufIds |-> IF id \in refs THEN heap[id] ELSE Free]

\* pycu.memset_d32(arr.gpudata, 0, n): the first n 32-bit words become 0.
memset_d32(t, n) ==
    [shape |-> t.shape, data |-> [k \in 1..Len(t.data) |-> IF k <= n THEN 0 ELSE t.data[k]]]

\* ------------------------------------------- pycuda_zeros (l. 59-66)
\* arr is a buffer id (0 for None). Returns the id of the cleared buffer and the
\* device memory after the call.
\* pycuda_zeros clearing only a newly allocated buffer: a slip C10 excludes.
pycuda_zeros_reuse_uncleared(heap, arr, shape) ==
    IF arr = 0 \/ heap[arr].shape # shape
    THEN LET id == fresh(heap)
         IN  [arr |-> id,
              gpu |-> [heap EXCEPT ![id] = memset_d32(zeros(shape), numel(shape))]]
    ELSE [arr |-> arr, gpu |-> heap]

pycuda_zeros(heap, arr, shape) ==
    IF arr = 0 \/ heap[arr].shape # shape
    THEN LET id == fresh(heap)
         IN  [arr |-> id,
              gpu |-> [heap EXCEPT ![id] = memset_d32(zeros(shape), numel(shape))]]
    ELSE [arr |-> arr,
          gpu |-> [heap EXCEPT ![arr] = memset_d32(heap[arr], numel(heap[arr].shape))]]

Min(a, b) == IF a < b THEN a ELSE b

\* math.ceil(a / b) for positive integers
Ceil(a, b) == (a + b - 1) \div b

AllZero(t) == \A k \in 1..Len(t.data) : t.data[k] = 0

\* ------------------------- the kernel image_mask_split (spec 3, 4.2)
\* One thread per (b, y, x) with b < batch_size and y, x < s reads the label
\* and the image value at offset b*s*s + y*s + x and accumulates into the
\* three stacked blocks of sdata (masked image, squared image, indicator) at
\* class c, row b, pixel (y, x). A read past the end of the image buffer
\* yields junk.
image_read(img, k, junk) == IF k <= Len(img.data) THEN img.data[k] ELSE junk

image_mask_split(mask, img, batch_size, s, sd, junk) ==
    LET m == NumClasses
        row == s * s
    IN  [shape |-> sd.shape,
         data |-> [k \in 1..Len(sd.data) |->
            LET blk == (k - 1) \div (m * batch_size * row)
                c == (((k - 1) \div (batch_size * row)) % m) + 1
                b == ((k - 1) \div row) % batch_size
                p == (k - 1) % row
                at == b * row + p + 1
                v == image_read(img, at, junk)
            IN  IF classifier(mask.data[at]) = c
                THEN sd.data[k] + (CASE blk = 0 -> v [] blk = 1 -> v * v [] OTHER -> 1)
                ELSE sd.data[k]]]

\* sdata_as_theano[lo:hi] of the buffer a view refers to.
view(heap, v) ==
    LET t == heap[v.buf]
        blk == Prod(Tail(t.shape))
    IN  [shape |-> <<v.hi - v.lo>> \o Tail(t.shape),
         data |-> [k \in 1..((v.hi - v.lo) * blk) |-> t.data[v.lo * blk + k]]]

\* The buffers the outputs a caller still holds keep alive: to_cudandarray
\* (l. 195) makes the CudaNdarray a view whose base is the GPUArray.
HeldBufs == IF held = None THEN {} ELSE {held.sum.ref.buf, held.pow.ref.buf}

\* --------------------------- SplitMask.make_thunk.thunk (l. 173-199)
\* The whole call on the inputs inp = [mask |-> ..., image |-> ...].
SplitMask_thunk_call(inp, junk) ==
    LET batch_size == Min(inp.mask.shape[1], inp.image.shape[1])
    IN  /\ mask_idx' = inp.mask
        /\ image' = inp.image
        /\ IF ~shape_ok(inp.mask.shape) \/ ~shape_ok(inp.image.shape)
              \/ inp.mask.shape[3] # inp.mask.shape[4]
           THEN /\ result' = "AssertionError"
                /\ launch' = None
                /\ UNCHANGED <<gpu, sdata, outputs>>
           ELSE LET s == inp.mask.shape[4]
                    m == NumClasses
                    sdata_shape == <<3 * m, batch_size, 1, s, s>>
                    z == pycuda_zeros(gpu, sdata, sdata_shape)
                    blocks_max == 32
                    blocks_s == Min(blocks_max, s)
                    grid_s == Ceil(s, blocks_max)
                    after == image_mask_split(inp.mask, inp.image, batch_size, s,
                                              z.gpu[z.arr], junk)
                IN  /\ sdata' = z.arr
                    /\ launch' = [function |-> "image_mask_split",
                                  batch_size |-> batch_size, s |-> s,
                                  grid |-> <<batch_size, grid_s, grid_s>>,
                                  block |-> <<1, blocks_s, blocks_s>>,
                                  required |-> sdata_shape,
                                  previous |-> IF sdata = 0 THEN <<>> ELSE gpu[sdata].shape,
                                  stale |-> (sdata # 0 /\ ~AllZero(gpu[sdata])),
                                  reused |-> (z.arr = sdata),
                                  scratch |-> z.gpu[z.arr].shape,
                                  clean |-> AllZero(z.gpu[z.arr])]
                    /\ outputs' = [status |-> "ok",
                                   sum |-> [buf |-> z.arr, lo |-> 0, hi |-> m],
                                   pow |-> [buf |-> z.arr, lo |-> m, hi |-> 2 * m],
                                   count |-> [buf |-> z.arr, lo |-> 2 * m, hi |-> 3 * m]]
                    /\ gpu' = collect([z.gpu EXCEPT ![z.arr] = after], {z.arr} \cup HeldBufs)
                    /\ result' = "ok"

\* ------------------------------- SplitMaskGrad.__init__ (l. 72-85)
NoneArg == <<"None">>

In(x, seq) == \E j \in 1..Len(seq) : seq[j] = x

\* __init__ without the final raise, falling through to the pow kernel: a
\* slip C8 excludes.
SplitMaskGrad_init_no_raise(connected_arg) ==
    LET connected == IF connected_arg = NoneArg THEN <<"sum", "pow">> ELSE connected_arg
    IN  IF In("sum", connected) /\ In("pow", connected)
        THEN [status |-> "ok", connected |-> connected,
              function_name |-> "image_mask_split_grad_sum_pow"]
        ELSE IF In("sum", connected)
        THEN [status |-> "ok", connected |-> connected,
              function_name |-> "image_mask_split_grad_sum"]
        ELSE [status |-> "ok", connected |-> connected,
              function_name |-> "image_mask_split_grad_pow"]

\* __init__ testing "sum" before the conjunction: a slip C9 excludes.
SplitMaskGrad_init_sum_first(connected_arg) ==
    LET connected == IF connected_arg = NoneArg THEN <<"sum", "pow">> ELSE connected_arg
    IN  IF In("sum", connected)
        THEN [status |-> "ok", connected |-> connected,
              function_name |-> "image_mask_split_grad_sum"]
        ELSE IF In("pow", connected)
        THEN [status |-> "ok", connected |-> connected,
              function_name |-> "image_mask_split_grad_pow"]
        ELSE [status |-> "ValueError"]

SplitMaskGrad_init(connected_arg) ==
    LET connected == IF connected_arg = NoneArg THEN <<"sum", "pow">> ELSE connected_arg
    IN  IF In("sum", connected) /\ In("pow", connected)
        THEN [status |-> "ok", connected |-> connected,
              function_name |-> "image_mask_split_grad_sum_pow"]
        ELSE IF In("sum", connected)
        THEN [status |-> "ok", connected |-> connected,
              function_name |-> "image_mask_split_grad_sum"]
        ELSE IF In("pow", connected)
        THEN [status |-> "ok", connected |-> connected,
              function_name |-> "image_mask_split_grad_pow"]
        ELSE [status |-> "ValueError"]

\* ------------------------------ SplitMaskGrad.make_node (l. 87-104)
\* A symbolic variable is [name |-> ..., disconnected |-> BOOLEAN].
str(v) == IF v.disconnected THEN "<DisconnectedType>" ELSE v.name

Var(name) == [name |-> name, disconnected |-> FALSE]

Disconnected(name) == [name |-> name, disconnected |-> TRUE]

\* make_node appending og_pow before og_sum: a slip C3 excludes.
SplitMaskGrad_make_node_pow_first(mask_v, image_v, og_sum, og_pow) ==
    IF str(og_sum) = "<DisconnectedType>" /\ str(og_pow) = "<DisconnectedType>"
    THEN [status |-> "ValueError"]
    ELSE [status |-> "ok",
          inputs |-> <<mask_v.name, image_v.name>>
                     \o (IF str(og_pow) # "<DisconnectedType>" THEN <<og_pow.name>> ELSE <<>>)
                     \o (IF str(og_sum) # "<DisconnectedType>" THEN <<og_sum.name>> ELSE <<>>)]

SplitMaskGrad_make_node(mask_v, image_v, og_sum, og_pow) ==
    IF str(og_sum) = "<DisconnectedType>" /\ str(og_pow) = "<DisconnectedType>"
    THEN [status |-> "ValueError"]
    ELSE [status |-> "ok",
          inputs |-> <<mask_v.name, image_v.name>>
                     \o (IF str(og_sum) # "<DisconnectedType>" THEN <<og_sum.name>> ELSE <<>>)
                     \o (IF str(og_pow) # "<DisconnectedType>" THEN <<og_pow.name>> ELSE <<>>)]

\* ------------------------------------- SplitMask.grad (l. 203-210)
\* connected as l. 205-209 build it from the output gradients
SplitMask_grad_connected(output_gradients) ==
    (IF str(output_gradients[1]) # "<DisconnectedType>" THEN <<"sum">> ELSE <<>>)
    \o (IF str(output_gradients[2]) # "<DisconnectedType>" THEN <<"pow">> ELSE <<>>)

\* T.zeros_like(inputs[1]), shaped like the image: a slip C4 excludes.
SplitMask_grad_mask_like_image(mask, img) == zeros_like(img)

\* the first entry of the returned list: T.zeros_like(inputs[0]), as evaluated
\* on the values of the inputs
SplitMask_grad_mask(mask, img) == zeros_like(mask)

\* the op and the node of the second entry: SplitMaskGrad(connected)(*grad_ins)
\* with grad_ins = inputs + output_gradients[:2]
SplitMask_grad(inputs, output_gradients) ==
    LET e == SplitMaskGrad_init(SplitMask_grad_connected(output_gradients))
    IN  IF e.status # "ok" THEN [status |-> e.status]
        ELSE LET n == SplitMaskGrad_make_node(inputs[1], inputs[2],
                                             output_gradients[1], output_gradients[2])
             IN  IF n.status # "ok" THEN [status |-> n.status]
                 ELSE [status |-> "ok", engine |-> e, node |-> n.inputs]

\* --------------- the kernels image_mask_split_grad_* (spec 4.3)
\* One thread per (b, y, x): with c the class of the pixel, the kernel adds to
\* grad[b, 0, y, x] the upstream sum gradient of (c, b) at that pixel and 2 *
\* image value * the upstream sum-of-squares gradient of (c, b) at that pixel,
\* each if the kernel variant takes it. The upstream gradients are passed by
\* position: (og_sum, og_pow), (og_sum) or (og_pow).
GradArity(function_name) ==
    IF function_name = "image_mask_split_grad_sum_pow" THEN 2 ELSE 1

image_mask_split_grad(function_name, mask, img, ogs, batch_size, s, g) ==
    LET row == s * s
    IN  [shape |-> g.shape,
         data |-> [k \in 1..Len(g.data) |->
            LET b == (k - 1) \div row
                p == (k - 1) % row
                c == classifier(mask.data[k])
                v == image_read(img, k, 0)
                at1 == ((c - 1) * ogs[1].shape[2] + b) * row + p + 1
            IN  g.data[k] +
                (CASE function_name = "image_mask_split_grad_sum_pow" ->
                        ogs[1].data[at1]
                        + (IF Len(ogs) > 1
                           THEN 2 * v * ogs[2].data[((c - 1) * ogs[2].shape[2] + b) * row + p + 1]
                           ELSE 0)
                   [] function_name = "image_mask_split_grad_sum" -> ogs[1].data[at1]
                   [] OTHER -> 2 * v * ogs[1].data[at1])]]

\* ------------------ SplitMaskGrad.make_thunk.thunk (l. 112-149)
\* inputs[j][0]: the value in the storage cell of the j-th input of the node
Storage(name, inp, ogv) ==
    CASE name = "mask_idx" -> inp.mask
      [] name = "image" -> inp.image
      [] name = "og_sum" -> ogv.sum
      [] OTHER -> ogv.pow

\* The positions (1-based) of the inputs the thunk passes as upstream gradients.
SplitMaskGrad_thunk_args(connected) ==
    IF In("sum", connected) /\ In("pow", connected) THEN <<3, 4>>
    ELSE IF In("sum", connected) THEN <<3>>
    ELSE IF In("pow", connected) THEN <<3>>
    ELSE <<>>

SplitMaskGrad_thunk_branch(connected) ==
    IF In("sum", connected) /\ In("pow", connected) THEN "both"
    ELSE IF In("sum", connected) THEN "sum"
    ELSE IF In("pow", connected) THEN "pow"
    ELSE "none"

SplitMaskGrad_thunk_call(inp, ogv) ==
    LET mask == Storage(node[1], inp, ogv)
        img == Storage(node[2], inp, ogv)
    IN  /\ mask_idx' = inp.mask
        /\ image' = inp.image
        /\ og' = ogv
        /\ call' = [op |-> "thunk"]
        /\ UNCHANGED <<engine, node>>
        /\ IF ~shape_ok(mask.shape) \/ ~shape_ok(img.shape)
           THEN /\ result' = "AssertionError"
                /\ launch' = None
                /\ zero_grad' = None
                /\ UNCHANGED <<gpu, grad>>
           ELSE LET s == mask.shape[4]
                    block_dim == Min(32, s)
                    grid_dim == Ceil(s, block_dim)
                    batch_size == Min(mask.shape[1], img.shape[1])
                    grad_shape == <<batch_size, 1, s, s>>
                    z == pycuda_zeros(gpu, grad, grad_shape)
                    args == SplitMaskGrad_thunk_args(engine.connected)
                IN  IF \E j \in 1..Len(args) : args[j] > Len(node)
                    THEN /\ result' = "IndexError"
                         /\ launch' = None
                         /\ zero_grad' = None
                         /\ gpu' = collect(z.gpu, {grad})
                         /\ UNCHANGED grad
                    ELSE LET ogs == [j \in 1..Len(args) |-> Storage(node[args[j]], inp, ogv)]
                             after == image_mask_split_grad(engine.function_name, mask, img,
                                                            ogs, batch_size, s, z.gpu[z.arr])
                         IN  /\ result' = "ok"
                             /\ launch' = [function |-> engine.function_name,
                                           branch |-> SplitMaskGrad_thunk_branch(engine.connected),
                                           ogs |-> [j \in 1..Len(args) |-> node[args[j]]],
                                           batch_size |-> batch_size, s |-> s,
                                           grid |-> <<batch_size, grid_dim, grid_dim>>,
                                           block |-> <<1, block_dim, block_dim>>,
                                           required |-> grad_shape,
                                           reused |-> (z.arr = grad),
                                           scratch |-> z.gpu[z.arr].shape,
                                           clean |-> AllZero(z.gpu[z.arr])]
                             /\ grad' = z.arr
                             /\ gpu' = collect([z.gpu EXCEPT ![z.arr] = after], {z.arr})
                             /\ zero_grad' = IF engine.via = "grad"
                                             THEN SplitMask_grad_mask(inp.mask, inp.image)
                                             ELSE None

\* ------------------------------------------- the inputs of the engines
MaxSeed == 1

OkShape == <<1, 1, 2, 2>>

\* Shapes with one defect each: two channels, non-square, odd side.
DefectShapes ==
    { <<1, 2, 2, 2>>, <<1, 1, 2, 4>>, <<1, 1, 3, 3>> }

DefectPairs ==
    { <<d, OkShape>> : d \in DefectShapes } \cup { <<OkShape, d>> : d \in DefectShapes }

\* Label map and image of one spatial shape, any two batch sizes.
EqualPairs == { <<ms, is>> \in ValidShapes \X ValidShapes : ms[3] = is[3] }

\* Label map and image both well-formed but of different spatial shapes.
MixedPairs ==
    { <<ms, is>> \in ValidShapes \X ValidShapes : ms[3] # is[3] /\ ms[1] = 1 /\ is[1] = 1 }

Filled(pairs) ==
    { [mask |-> GenLabels(pr[1], <<1, k, k>>), image |-> GenValues(pr[2], <<1, 1, k>>)] :
      pr \in pairs, k \in 0..MaxSeed }

Unfilled(pairs) ==
    { [mask |-> GenLabels(pr[1], <<0, 0, 0>>), image |-> zeros(pr[2])] : pr \in pairs }

FwdInputs == Filled(EqualPairs \cup MixedPairs) \cup Unfilled(DefectPairs)

\* The values a read past the end of the image may yield, if any occurs.
Junk(inp) ==
    IF shape_ok(inp.mask.shape) /\ shape_ok(inp.image.shape)
       /\ Min(inp.mask.shape[1], inp.image.shape[1]) * inp.mask.shape[4] * inp.mask.shape[4]
          > Len(inp.image.data)
    THEN Vals ELSE {0}

\* ------------- the reference path (l. 268-270 with impl = reference)
\* Any (sum, pow, count) triple a caller may hand to split_to_mean_var: the
\* count entries are 0 or 1, the sum and pow entries any value.
StatShapes == { <<NumClasses, n, 1, 1, 2>> : n \in 1..MaxBatch }

GenCounts(shape, cp) ==
    [shape |-> shape,
     data |-> [k \in 1..numel(shape) |-> (cp[1] * (k - 1) + cp[2] * ((k - 1) \div 2)) % 2]]

AnyTriples ==
    { [status |-> "ok",
       sum |-> GenValues(sh, <<vp[1], vp[2], vp[3]>>),
       pow |-> GenValues(sh, <<vp[3], vp[1], vp[2]>>),
       count |-> GenCounts(sh, cp)] :
      sh \in StatShapes, vp \in ValuePatterns, cp \in (0..1) \X (0..1) }

InitRef ==
    /\ stats = None
    /\ gpu = [id \in BufIds |-> Free]
    /\ sdata = 0
    /\ outputs = None
    /\ launch = None
    /\ result = "none"
    /\ engine = None
    /\ node = None
    /\ og = None
    /\ grad = 0
    /\ zero_grad = None
    /\ call = None
    /\ held = None
    /\ \/ /\ \E ms \in ValidShapes, is \in ValidShapes :
                \E lp \in LabelPatterns, vp \in ValuePatterns :
                    /\ ms[3] = is[3]
                    /\ mask_idx = GenLabels(ms, lp)
                    /\ image = GenValues(is, vp)
          /\ split = None
       \/ /\ mask_idx = None
          /\ image = None
          /\ split \in AnyTriples

\* split_fn(grid_idx, image) with the reference implementation
RefSplit ==
    /\ split = None
    /\ split' = theano_split_mask(mask_idx, image)
    /\ UNCHANGED <<mask_idx, image, stats>>
    /\ UNCHANGED fwdvars
    /\ UNCHANGED gradvars
    /\ UNCHANGED held

\* mean, var, count = split_to_mean_var(*split)
PostProcess ==
    /\ split.status = "ok"
    /\ stats = None
    /\ stats' = split_to_mean_var(split.sum, split.pow, split.count)
    /\ UNCHANGED <<mask_idx, image, split>>
    /\ UNCHANGED fwdvars
    /\ UNCHANGED gradvars
    /\ UNCHANGED held

NextRef == RefSplit \/ PostProcess

SpecRef == InitRef /\ [][NextRef]_vars

\* --------------------------------------- the forward engine SplitMask
\* make_thunk (l. 166-171): self._sdata = None, nothing computed yet
InitFwd ==
    /\ mask_idx = None
    /\ image = None
    /\ split = None
    /\ stats = None
    /\ gpu = [id \in BufIds |-> Free]
    /\ sdata = 0
    /\ outputs = None
    /\ launch = None
    /\ result = "none"
    /\ engine = None
    /\ node = None
    /\ og = None
    /\ grad = 0
    /\ zero_grad = None
    /\ call = None
    /\ held = None

SplitMask_thunk ==
    /\ \E inp \in FwdInputs : \E junk \in Junk(inp) : SplitMask_thunk_call(inp, junk)
    /\ UNCHANGED <<split, stats>>
    /\ UNCHANGED gradvars
    /\ UNCHANGED held

NextFwd == SplitMask_thunk

SpecFwd == InitFwd /\ [][NextFwd]_vars

\* ------------------- the forward engine with a caller keeping outputs
\* Calls of one engine instance on inputs of two batch sizes, so that a
\* later call finds the scratch buffer either of the required shape or not.
HoldShapes == { <<n, 1, 2, 2>> : n \in {1, MaxBatch} }

HoldInputs == Filled({ <<sh, sh>> : sh \in HoldShapes })

\* The caller takes outputs[0][0] and outputs[1][0] of the call just made and
\* notes the values it reads from them.
Retain ==
    /\ outputs # None
    /\ held = None
    /\ held' = [sum |-> [ref |-> outputs.sum, value |-> view(gpu, outputs.sum)],
                pow |-> [ref |-> outputs.pow, value |-> view(gpu, outputs.pow)]]
    /\ UNCHANGED <<mask_idx, image, split, stats>>
    /\ UNCHANGED fwdvars
    /\ UNCHANGED gradvars

\* The caller drops them again.
Release ==
    /\ held # None
    /\ held' = None
    /\ gpu' = collect(gpu, {sdata})
    /\ UNCHANGED <<mask_idx, image, split, stats, sdata, outputs, launch, result>>
    /\ UNCHANGED gradvars

\* A forward call of the same engine instance.
SplitMask_thunk_again ==
    /\ \E inp \in HoldInputs : \E junk \in Junk(inp) : SplitMask_thunk_call(inp, junk)
    /\ UNCHANGED <<split, stats>>
    /\ UNCHANGED gradvars
    /\ UNCHANGED held

NextHold == SplitMask_thunk_again \/ Retain \/ Release

SpecHold == InitFwd /\ [][NextHold]_vars

\* ---------------------------------- the gradient engine SplitMaskGrad
\* Upstream gradients as the spatial sum passes them back: one value per
\* (class, batch row), the same at every pixel; the two never agree.
GenOg(mshape, ishape, k, a) ==
    LET n == Min(mshape[1], ishape[1])
        row == mshape[3] * mshape[4]
    IN  [shape |-> <<NumClasses, n, 1, mshape[3], mshape[4]>>,
         data |-> [j \in 1..(NumClasses * n * row) |->
                      a * (1 + ((((j - 1) \div row) + k) % 2))]]

WithOg(inp, k) ==
    [mask |-> inp.mask, image |-> inp.image,
     og |-> [sum |-> GenOg(inp.mask.shape, inp.image.shape, k, 1),
             pow |-> GenOg(inp.mask.shape, inp.image.shape, k + 1, -1)]]

GradInputs ==
    { WithOg([mask |-> GenLabels(pr[1], <<1, k, k>>),
              image |-> GenValues(pr[2], <<1, 1, k>>)], k) :
      pr \in EqualPairs, k \in 0..MaxSeed }
    \cup { WithOg(inp, 0) : inp \in Unfilled(DefectPairs) }

ConnectedArgs ==
    { NoneArg, <<>>, <<"count">>, <<"sum">>, <<"pow">>, <<"sum", "pow">>, <<"pow", "sum">> }

OgVars == { <<Var("og_sum"), Var("og_pow")>>, <<Var("og_sum"), Disconnected("og_pow")>>,
            <<Disconnected("og_sum"), Var("og_pow")>>,
            <<Disconnected("og_sum"), Disconnected("og_pow")>> }

\* The op instance and who built it: SplitMask.grad ("grad") or a caller ("direct").
Engine(e, via) ==
    [status |-> "ok", connected |-> e.connected, function_name |-> e.function_name,
     via |-> via]

InitGrad ==
    /\ mask_idx = None
    /\ image = None
    /\ split = None
    /\ stats = None
    /\ gpu = [id \in BufIds |-> Free]
    /\ sdata = 0
    /\ outputs = None
    /\ launch = None
    /\ result = "none"
    /\ engine = None
    /\ node = None
    /\ og = None
    /\ grad = 0
    /\ zero_grad = None
    /\ call = None
    /\ held = None

\* A new graph: nothing computed yet, the output cell empty.
FreshNode ==
    /\ mask_idx' = None
    /\ image' = None
    /\ og' = None
    /\ gpu' = [id \in BufIds |-> Free]
    /\ grad' = 0
    /\ launch' = None
    /\ zero_grad' = None
    /\ UNCHANGED <<split, stats, sdata, outputs, held>>

\* theano.grad through the forward op: SplitMask.grad(inputs, output_gradients)
GradOfSplitMask ==
    \E ogs \in OgVars :
        LET r == SplitMask_grad(<<Var("mask_idx"), Var("image")>>, ogs)
        IN  /\ call' = [op |-> "grad", arg |-> ogs]
            /\ result' = r.status
            /\ engine' = IF r.status = "ok" THEN Engine(r.engine, "grad") ELSE None
            /\ node' = IF r.status = "ok" THEN r.node ELSE None
            /\ FreshNode

\* SplitMaskGrad(connected) built directly
Construct ==
    \E c \in ConnectedArgs :
        LET e == SplitMaskGrad_init(c)
        IN  /\ call' = [op |-> "init", arg |-> c]
            /\ result' = e.status
            /\ engine' = IF e.status = "ok" THEN Engine(e, "direct") ELSE None
            /\ node' = None
            /\ FreshNode

\* op(mask_idx, image, og_sum, og_pow) on a directly built op: make_node
Apply ==
    /\ engine # None
    /\ engine.via = "direct"
    /\ \E ogs \in OgVars :
          LET n == SplitMaskGrad_make_node(Var("mask_idx"), Var("image"), ogs[1], ogs[2])
          IN  /\ call' = [op |-> "make_node", arg |-> ogs]
              /\ result' = n.status
              /\ node' = IF n.status = "ok" THEN n.inputs ELSE None
              /\ UNCHANGED engine
              /\ FreshNode

SplitMaskGrad_thunk ==
    /\ engine # None
    /\ node # None
    /\ \E inp \in GradInputs : SplitMaskGrad_thunk_call(inp, inp.og)
    /\ UNCHANGED <<split, stats, sdata, outputs, held>>

NextGrad == GradOfSplitMask \/ Construct \/ Apply \/ SplitMaskGrad_thunk

SpecGrad == InitGrad /\ [][NextGrad]_vars

\* ------------------------------------------------------------ the claims
\* The pixels (1-based offsets in row b) of the label map with the code of class c.
ClassPixels(b, c) ==
    LET row == mask_idx.shape[3] * mask_idx.shape[4]
    IN  { p \in 1..row : mask_idx.data[(b - 1) * row + p] = MASK[c] }

\* The last call was one of the reference implementation on a valid input:
\* label map and image of one shape (N, 1, S, S).
RefValidCall ==
    /\ mask_idx # None
    /\ split # None
    /\ mask_idx.shape = image.shape

\* C1: on every valid input the reference implementation followed by the
\* spatial sum yields, for every class c and batch row b, the count of the
\* pixels of row b labelled c, the sum of their values and the sum of their
\* squares: the triple the forward scan accumulates.
C1_ReferenceMatchesScan ==
    RefValidCall =>
        /\ split.status = "ok"
        /\ \A c \in 1..NumClasses, b \in 1..image.shape[1] :
              /\ sum_axis234(split.count)[c][b] = Cardinality(ClassPixels(b, c))
              /\ << sum_axis234(split.sum)[c][b],
                    sum_axis234(split.pow)[c][b],
                    sum_axis234(split.count)[c][b] >>
                 = reduceSegments(mask_idx, image, b, c)

C1_Witness ==
    /\ RefValidCall
    /\ split.status = "ok"
    /\ \E b \in 1..image.shape[1], c \in 1..NumClasses, d \in 1..NumClasses :
          /\ c # d
          /\ sum_axis234(split.count)[c][b] > 1
          /\ sum_axis234(split.count)[d][b] > 0
          /\ sum_axis234(split.sum)[c][b] < 0
          /\ sum_axis234(split.pow)[c][b] > 1
          /\ sum_axis234(split.sum)[d][b] > 0

\* C2: on every valid input and for every batch row b the counts of all
\* classes add up to the S*S pixels of image b.
C2_CountsPartitionPixels ==
    RefValidCall =>
        /\ split.status = "ok"
        /\ \A b \in 1..image.shape[1] :
              LET cs == sum_axis234(split.count)
              IN  SumRange([c \in 1..NumClasses |-> cs[c][b]], 1, NumClasses)
                  = image.shape[3] * image.shape[4]

C2_Witness ==
    /\ RefValidCall
    /\ split.status = "ok"
    /\ image.shape[1] > 1
    /\ \A c \in 1..NumClasses : sum_axis234(split.count)[c][2] > 0

\* C5: split_to_mean_var returns, for every (class, batch) slot, the spatial
\* sum of count; mean 0 and variance 0 where it is 0, whatever sum and pow
\* hold there; elsewhere mean = sum/count and variance = pow/count - mean^2;
\* a class whose pixels all share one value x gets mean x and variance 0; no
\* slot is the result of a division by zero.
C5_MeanVarCount ==
    stats # None =>
        /\ stats.count = sum_axis234(split.count)
        /\ \A c \in DOMAIN stats.count : \A b \in DOMAIN stats.count[c] :
              LET ct == stats.count[c][b]
                  sm == sum_axis234(split.sum)[c][b]
                  pw == sum_axis234(split.pow)[c][b]
                  mean == stats.mean[c][b]
                  var == stats.var[c][b]
              IN  /\ mean[2] > 0
                  /\ var[2] > 0
                  /\ ct = 0 => mean = <<0, 1>> /\ var = <<0, 1>>
                  /\ ct # 0 =>
                        /\ mean[1] * ct = sm * mean[2]
                        /\ var[1] * ct * ct = (pw * ct - sm * sm) * var[2]
                  /\ (RefValidCall /\ ct # 0) =>
                        \A x \in Vals :
                            (\A p \in ClassPixels(b, c) :
                                image.data[(b - 1) * image.shape[3] * image.shape[4] + p] = x)
                            => mean = <<x, 1>> /\ var = <<0, 1>>

\* A triple with an empty slot whose sum is not zero next to a slot of two
\* pixels with a non-zero variance.
C5_Witness ==
    /\ stats # None
    /\ \E c \in DOMAIN stats.count : \E b \in DOMAIN stats.count[c] :
          /\ stats.count[c][b] = 0
          /\ sum_axis234(split.sum)[c][b] # 0
          /\ sum_axis234(split.pow)[c][b] # 0
    /\ \E c \in DOMAIN stats.count : \E b \in DOMAIN stats.count[c] :
          /\ stats.count[c][b] > 1
          /\ stats.mean[c][b][2] > 1
          /\ stats.var[c][b] # <<0, 1>>

\* The upstream gradients the node of the gradient engine was given.
Supplied == { node[j] : j \in 3..Len(node) }

\* The gradients named in connected are the ones the node was given.
ModeMatch ==
    /\ ("og_sum" \in Supplied) <=> In("sum", engine.connected)
    /\ ("og_pow" \in Supplied) <=> In("pow", engine.connected)

\* The last step was a backward call of the gradient node.
BackwardCall == call # None /\ call.op = "thunk"

C4_LabelMapGradientZero ==
    /\ zero_grad # None =>
          /\ zero_grad.shape = mask_idx.shape
          /\ AllZero(zero_grad)
    /\ (BackwardCall /\ engine.via = "grad" /\ result = "ok") => zero_grad # None

C4_Witness ==
    /\ zero_grad # None
    /\ launch.branch = "pow"
    /\ mask_idx.shape[1] < image.shape[1]
    /\ \E k \in 1..Len(gpu[grad].data) : gpu[grad].data[k] # 0

\* C6: with label map batch size N1 and image batch size N2 every split
\* function returns outputs of batch dimension min(N1, N2), and the backward
\* gradient has that batch dimension: the reference implementation, the
\* accelerated engine and its gradient alike.
C6_BatchIsMin ==
    /\ (mask_idx # None /\ split # None) =>
          /\ split.status = "ok"
          /\ split.sum.shape[2] = Min(mask_idx.shape[1], image.shape[1])
          /\ split.pow.shape[2] = Min(mask_idx.shape[1], image.shape[1])
          /\ split.count.shape[2] = Min(mask_idx.shape[1], image.shape[1])
    /\ (outputs # None /\ result = "ok") =>
          gpu[outputs.sum.buf].shape[2] = Min(mask_idx.shape[1], image.shape[1])
    /\ (BackwardCall /\ result = "ok") =>
          gpu[grad].shape[1] = Min(mask_idx.shape[1], image.shape[1])

\* A shape precondition of a call on the label map and the image.
ShapeViolation(ms, is) ==
    \/ ms[3] # ms[4] \/ is[3] # is[4]
    \/ ms[3] % 2 # 0 \/ is[3] % 2 # 0
    \/ ms[2] # 1 \/ is[2] # 1
    \/ <<ms[3], ms[4]>> # <<is[3], is[4]>>

\* C7: a call whose label map or image is non-square, of odd side length or
\* of a channel count other than 1, or whose label map and image differ in
\* spatial shape, ends in an assertion error and launches no kernel.
C7_ShapeViolationAborts ==
    (mask_idx # None /\ ShapeViolation(mask_idx.shape, image.shape)) =>
        /\ result = "AssertionError"
        /\ launch = None

Neither(connected_arg) ==
    connected_arg # NoneArg /\ ~In("sum", connected_arg) /\ ~In("pow", connected_arg)

BothDisconnected(ogs) == ogs[1].disconnected /\ ogs[2].disconnected

\* C8: no gradient engine without an upstream gradient can be obtained:
\* SplitMask.grad with both output gradients disconnected, SplitMaskGrad with
\* a connected list naming neither "sum" nor "pow" and make_node with both
\* upstream gradients disconnected each raise instead of returning.
C8_NeedsAGradient ==
    /\ engine # None => In("sum", engine.connected) \/ In("pow", engine.connected)
    /\ node # None => Supplied # {}
    /\ (call # None /\ call.op = "grad" /\ BothDisconnected(call.arg)) =>
          result = "ValueError" /\ engine = None /\ node = None
    /\ (call # None /\ call.op = "init" /\ Neither(call.arg)) =>
          result = "ValueError" /\ engine = None /\ node = None
    /\ (call # None /\ call.op = "make_node" /\ BothDisconnected(call.arg)) =>
          result = "ValueError" /\ node = None

C8_Witness ==
    /\ call # None
    /\ call.op = "make_node"
    /\ BothDisconnected(call.arg)
    /\ engine # None
    /\ result = "ValueError"

\* The kernel of a connection mode.
KernelOf(mode) ==
    CASE mode = "both" -> "image_mask_split_grad_sum_pow"
      [] mode = "sum" -> "image_mask_split_grad_sum"
      [] mode = "pow" -> "image_mask_split_grad_pow"
      [] OTHER -> "none"

\* C9: in every backward call the kernel function selected at construction
\* and the list of upstream gradients passed to it belong to one mode, the
\* mode of the engine.
C9_ModeFixedAtConstruction ==
    (BackwardCall /\ launch # None) =>
        /\ launch.function = engine.function_name
        /\ launch.function = KernelOf(launch.branch)
        /\ Len(launch.ogs) = GradArity(launch.function)
        /\ launch.branch =
              (IF In("sum", engine.connected) /\ In("pow", engine.connected) THEN "both"
               ELSE IF In("sum", engine.connected) THEN "sum" ELSE "pow")

\* A second call through one engine of mode both, its output buffer reused.
C9_Witness ==
    /\ BackwardCall
    /\ launch # None
    /\ launch.reused
    /\ launch.branch = "both"
    /\ engine.connected = <<"pow", "sum">>

\* The last step was a forward call that launched the kernel.
ForwardLaunch == launch # None /\ launch.function = "image_mask_split"

\* C10: at every kernel launch of the forward engine the scratch buffer has
\* the required shape (3*|classes|, batch, 1, S, S) and holds only zeros; it
\* is the previous buffer exactly when that had the required shape; no value
\* of an earlier call is part of the result.
C10_ScratchCleanAtLaunch ==
    ForwardLaunch =>
        LET batch == Min(mask_idx.shape[1], image.shape[1])
            s == mask_idx.shape[4]
        IN  /\ launch.required = <<3 * NumClasses, batch, 1, s, s>>
            /\ launch.scratch = launch.required
            /\ launch.clean
            /\ launch.reused <=> (launch.previous = launch.required)
            /\ gpu[sdata].shape = launch.required
            /\ image.shape[3] = s =>
                  \A c \in 1..NumClasses, b \in 1..batch :
                      << sum_axis234(view(gpu, outputs.sum))[c][b],
                         sum_axis234(view(gpu, outputs.pow))[c][b],
                         sum_axis234(view(gpu, outputs.count))[c][b] >>
                      = reduceSegments(mask_idx, image, b, c)

\* A launch on a reused buffer that held the values of the call before.
C10_Witness ==
    /\ ForwardLaunch
    /\ launch.reused
    /\ launch.stale
    /\ \E k \in 1..Len(gpu[sdata].data) : gpu[sdata].data[k] < 0

\* C11: the sum and sumOfSquares tensors a forward call returned are its
\* own: whatever forward calls the same engine instance makes afterwards,
\* a caller still holding them reads the shape (|classes|, N, 1, S, S) and
\* the values it read when the call returned.
C11_EarlierOutputsKept ==
    held # None =>
        /\ view(gpu, held.sum.ref) = held.sum.value
        /\ view(gpu, held.pow.ref) = held.pow.value

====
